---- MODULE Spec2Model ----
(***************************************************************************)
(* CubismRenderTarget_WebGL (cubismrendertarget_webgl.ts): an offscreen    *)
(* render target owning one colour texture and one framebuffer of a WebGL  *)
(* context.  The model keeps the fields of every target, the part of each  *)
(* context's state the class reads and writes (framebuffer and texture     *)
(* bindings, the objects created and deleted), and one action per public   *)
(* method.  A method body is a composition of context calls applied to a   *)
(* "world" record in program order; a TypeError raised by dereferencing a  *)
(* null _gl stops the body where the code stops and keeps the writes made  *)
(* before it.                                                              *)
(*                                                                         *)
(* The context records bindings verbatim (bindFramebuffer(p, fb) makes fb  *)
(* the binding of p) and refuses to delete an object it did not create.    *)
(***************************************************************************)
EXTENDS Integers, Sequences, FiniteSets, TLC

\* ---------------------------------------------------------------- bounds
NumTargets == 2
MaxHandles == 6
MaxDim == 1

\* ------------------------------------------------------------- constants
Null == 0

Targets == 1..NumTargets
Dims == 1..MaxDim

\* Two contexts: a WebGLRenderingContext and a WebGL2RenderingContext.
Contexts == {"webgl", "webgl2"}
NoContext == "null"

\* gl instanceof WebGL2RenderingContext
IsWebGL2(c) == c = "webgl2"

\* A framebuffer object of the caller (the pass scheduler) in context c.
CallerFbo(c) == IF c = "webgl" THEN 1 ELSE 2

VARIABLES
  target,   \* target[t]: the fields of render target t
  ctx,      \* ctx[c]: bindings and objects of context c
  nextId,   \* the next object handle a context hands out
  last,     \* the call that has just completed: arguments, outcome, context calls
  open,     \* the caller's stack of open, well-nested draw passes
  rebegin   \* how far the caller is into beginDraw, beginDraw, endDraw, endDraw

vars == <<target, ctx, nextId, last, open, rebegin>>

\* ------------------------------------------------------------ constructor
NewTarget ==
  [ gl            |-> NoContext,
    colorBuffer   |-> Null,
    renderTexture |-> Null,
    bufferWidth   |-> 0,
    bufferHeight  |-> 0,
    oldFbo        |-> Null ]

NewContext(c) ==
  [ draw         |-> Null,          \* FRAMEBUFFER_BINDING (DRAW_FRAMEBUFFER)
    read         |-> Null,          \* READ_FRAMEBUFFER_BINDING
    tex2d        |-> Null,          \* TEXTURE_BINDING_2D
    textures     |-> {},            \* textures created by render targets
    framebuffers |-> {},            \* framebuffers created by render targets
    deleted      |-> {} ]           \* objects of this context that were deleted

\* ------------------------------------------------------------ the world
World ==
  [ target |-> target, ctx |-> ctx, nextId |-> nextId,
    calls  |-> <<>>,      \* context calls issued so far, in order
    blit   |-> <<>>,      \* the rectangle arguments of blitFramebuffer
    ret    |-> Null,      \* value returned by the last context call
    thrown |-> FALSE,
    out    |-> "none" ]

\* A logged call: <<context, function, binding point or parameter, object>>;
\* for a call that creates or queries, the object is the value it returned.
Call(w, c, name, point, arg) ==
  [w EXCEPT !.calls = Append(@, <<c, name, point, arg>>)]

Return(w, value) == [w EXCEPT !.out = value]

\* Dereferencing this._gl while it is null.
ThrowTypeError(w) == [w EXCEPT !.thrown = TRUE, !.out = "TypeError"]

\* throw new Error('WebGL2RenderingContext is required for buffer copy.')
ThrowCapabilityError(w) == [w EXCEPT !.thrown = TRUE, !.out = "CapabilityError"]

\* ------------------------------------------------------- context calls
GlBindFramebuffer(w, c, point, fb) ==
  LET w1 == Call(w, c, "bindFramebuffer", point, fb)
  IN  CASE point = "FRAMEBUFFER" ->
             [w1 EXCEPT !.ctx[c].draw = fb, !.ctx[c].read = fb]
        [] point = "READ_FRAMEBUFFER" ->
             [w1 EXCEPT !.ctx[c].read = fb]
        [] point = "DRAW_FRAMEBUFFER" ->
             [w1 EXCEPT !.ctx[c].draw = fb]

GlBindTexture(w, c, tex) ==
  [Call(w, c, "bindTexture", "TEXTURE_2D", tex) EXCEPT !.ctx[c].tex2d = tex]

GlGetFramebufferBinding(w, c) ==
  [Call(w, c, "getParameter", "FRAMEBUFFER_BINDING", w.ctx[c].draw)
     EXCEPT !.ret = w.ctx[c].draw]

GlCreateTexture(w, c, ok) ==
  LET w1 == Call(w, c, "createTexture", "", IF ok THEN w.nextId ELSE Null)
  IN  IF ok
      THEN [w1 EXCEPT !.ret = w.nextId, !.nextId = @ + 1,
                      !.ctx[c].textures = @ \cup {w.nextId}]
      ELSE [w1 EXCEPT !.ret = Null]

GlCreateFramebuffer(w, c, ok) ==
  LET w1 == Call(w, c, "createFramebuffer", "", IF ok THEN w.nextId ELSE Null)
  IN  IF ok
      THEN [w1 EXCEPT !.ret = w.nextId, !.nextId = @ + 1,
                      !.ctx[c].framebuffers = @ \cup {w.nextId}]
      ELSE [w1 EXCEPT !.ret = Null]

GlDeleteTexture(w, c, tex) ==
  LET w1 == Call(w, c, "deleteTexture", "", tex)
  IN  IF tex \in w.ctx[c].textures
      THEN [w1 EXCEPT !.ctx[c].deleted = @ \cup {tex}]
      ELSE w1

GlDeleteFramebuffer(w, c, fb) ==
  LET w1 == Call(w, c, "deleteFramebuffer", "", fb)
  IN  IF fb \in w.ctx[c].framebuffers
      THEN [w1 EXCEPT !.ctx[c].deleted = @ \cup {fb}]
      ELSE w1

\* texImage2D and the four texParameteri calls on the bound texture.
GlTexImageAndParameters(w, c) ==
  LET w1 == Call(w, c, "texImage2D", "TEXTURE_2D", w.ctx[c].tex2d)
      w2 == Call(w1, c, "texParameteri", "TEXTURE_WRAP_S", w.ctx[c].tex2d)
      w3 == Call(w2, c, "texParameteri", "TEXTURE_WRAP_T", w.ctx[c].tex2d)
      w4 == Call(w3, c, "texParameteri", "TEXTURE_MIN_FILTER", w.ctx[c].tex2d)
  IN  Call(w4, c, "texParameteri", "TEXTURE_MAG_FILTER", w.ctx[c].tex2d)

GlFramebufferTexture2D(w, c, tex) ==
  Call(w, c, "framebufferTexture2D", "COLOR_ATTACHMENT0", tex)

\* status === gl.FRAMEBUFFER_COMPLETE: the context's answer `complete`, and
\* never complete without a colour attachment.
GlCheckFramebufferStatus(w, c, attached, complete) ==
  LET status == IF complete /\ attached # Null THEN 1 ELSE 0
  IN  [Call(w, c, "checkFramebufferStatus", "FRAMEBUFFER", status)
         EXCEPT !.ret = status]

GlBlitFramebuffer(w, c, sw, sh, dw, dh) ==
  [Call(w, c, "blitFramebuffer", "COLOR_BUFFER_BIT", Null)
     EXCEPT !.blit = <<0, 0, sw, sh, 0, 0, dw, dh>>]

GlClear(w, c) ==
  Call(Call(w, c, "clearColor", "", Null), c, "clear", "COLOR_BUFFER_BIT", Null)

\* ------------------------------------------------------------- methods
\* destroyRenderTarget() that deletes the framebuffer but keeps the field.
DestroyRenderTarget_KeepsRenderTexture(w, t) ==
  LET g  == w.target[t].gl
      w1 == IF w.target[t].colorBuffer # Null
            THEN IF g = NoContext
                 THEN ThrowTypeError(w)
                 ELSE LET a == GlBindTexture(w, g, Null)
                          b == GlDeleteTexture(a, g, a.target[t].colorBuffer)
                      IN  [b EXCEPT !.target[t].colorBuffer = Null]
            ELSE w
  IN  IF w1.thrown THEN w1
      ELSE IF w1.target[t].renderTexture # Null
           THEN IF g = NoContext
                THEN ThrowTypeError(w1)
                ELSE LET a == GlBindFramebuffer(w1, g, "FRAMEBUFFER", Null)
                     IN  GlDeleteFramebuffer(a, g, a.target[t].renderTexture)
           ELSE w1

\* destroyRenderTarget() that deletes its framebuffer without unbinding first.
DestroyRenderTarget_KeepsBinding(w, t) ==
  LET g  == w.target[t].gl
      w1 == IF w.target[t].colorBuffer # Null
            THEN IF g = NoContext
                 THEN ThrowTypeError(w)
                 ELSE LET a == GlBindTexture(w, g, Null)
                          b == GlDeleteTexture(a, g, a.target[t].colorBuffer)
                      IN  [b EXCEPT !.target[t].colorBuffer = Null]
            ELSE w
  IN  IF w1.thrown THEN w1
      ELSE IF w1.target[t].renderTexture # Null
           THEN IF g = NoContext
                THEN ThrowTypeError(w1)
                ELSE LET b == GlDeleteFramebuffer(w1, g,
                                                  w1.target[t].renderTexture)
                     IN  [b EXCEPT !.target[t].renderTexture = Null]
           ELSE w1

\* destroyRenderTarget(): each resource is released through this._gl.
DestroyRenderTarget(w, t) ==
  LET g  == w.target[t].gl
      w1 == IF w.target[t].colorBuffer # Null
            THEN IF g = NoContext
                 THEN ThrowTypeError(w)
                 ELSE LET a == GlBindTexture(w, g, Null)
                          b == GlDeleteTexture(a, g, a.target[t].colorBuffer)
                      IN  [b EXCEPT !.target[t].colorBuffer = Null]
            ELSE w
  IN  IF w1.thrown THEN w1
      ELSE IF w1.target[t].renderTexture # Null
           THEN IF g = NoContext
                THEN ThrowTypeError(w1)
                ELSE LET a == GlBindFramebuffer(w1, g, "FRAMEBUFFER", Null)
                         b == GlDeleteFramebuffer(a, g, a.target[t].renderTexture)
                     IN  [b EXCEPT !.target[t].renderTexture = Null]
           ELSE w1

\* createOffscreenRenderTarget() that rebinds previousFramebuffer on success too.
CreateOffscreenRenderTarget_RestoresOnSuccess(w, t, gl, width, height, previousFramebuffer, texOk, fbOk, complete) ==
  LET w0 == DestroyRenderTarget(w, t)
  IN  IF w0.thrown THEN w0
      ELSE
      LET w1 == GlCreateTexture(w0, gl, texOk)
          w2 == [w1 EXCEPT !.target[t].colorBuffer = w1.ret]
          w3 == GlBindTexture(w2, gl, w2.target[t].colorBuffer)
          w4 == GlTexImageAndParameters(w3, gl)
          w5 == GlBindTexture(w4, gl, Null)
          w6 == GlCreateFramebuffer(w5, gl, fbOk)
          ret == w6.ret
      IN  IF ret = Null
          THEN Return(w6, "false")
          ELSE
          LET w7 == GlBindFramebuffer(w6, gl, "FRAMEBUFFER", ret)
              w8 == GlFramebufferTexture2D(w7, gl, w7.target[t].colorBuffer)
              w9 == GlCheckFramebufferStatus(w8, gl, w8.target[t].colorBuffer,
                                             complete)
          IN  IF w9.ret # 1
              THEN LET wa == GlBindFramebuffer(w9, gl, "FRAMEBUFFER",
                                               previousFramebuffer)
                       wb == GlDeleteFramebuffer(wa, gl, ret)
                       wc == DestroyRenderTarget(wb, t)
                   IN  IF wc.thrown THEN wc ELSE Return(wc, "false")
              ELSE LET wd == GlBindFramebuffer(w9, gl, "FRAMEBUFFER",
                                               previousFramebuffer)
                   IN  Return([wd EXCEPT !.target[t].renderTexture = ret,
                                         !.target[t].bufferWidth = width,
                                         !.target[t].bufferHeight = height,
                                         !.target[t].gl = gl],
                              "true")

\* createOffscreenRenderTarget(gl, displayBufferWidth, displayBufferHeight,
\* previousFramebuffer).  texOk, fbOk and complete are the context's answers
\* to createTexture, createFramebuffer and checkFramebufferStatus.
CreateOffscreenRenderTarget(w, t, gl, width, height, previousFramebuffer, texOk, fbOk, complete) ==
  LET w0 == DestroyRenderTarget(w, t)
  IN  IF w0.thrown THEN w0
      ELSE
      LET w1 == GlCreateTexture(w0, gl, texOk)
          w2 == [w1 EXCEPT !.target[t].colorBuffer = w1.ret]
          w3 == GlBindTexture(w2, gl, w2.target[t].colorBuffer)
          w4 == GlTexImageAndParameters(w3, gl)
          w5 == GlBindTexture(w4, gl, Null)
          w6 == GlCreateFramebuffer(w5, gl, fbOk)
          ret == w6.ret
      IN  IF ret = Null
          THEN Return(w6, "false")
          ELSE
          LET w7 == GlBindFramebuffer(w6, gl, "FRAMEBUFFER", ret)
              w8 == GlFramebufferTexture2D(w7, gl, w7.target[t].colorBuffer)
              w9 == GlCheckFramebufferStatus(w8, gl, w8.target[t].colorBuffer,
                                             complete)
          IN  IF w9.ret # 1
              THEN LET wa == GlBindFramebuffer(w9, gl, "FRAMEBUFFER",
                                               previousFramebuffer)
                       wb == GlDeleteFramebuffer(wa, gl, ret)
                       wc == DestroyRenderTarget(wb, t)
                   IN  IF wc.thrown THEN wc ELSE Return(wc, "false")
              ELSE Return([w9 EXCEPT !.target[t].renderTexture = ret,
                                     !.target[t].bufferWidth = width,
                                     !.target[t].bufferHeight = height,
                                     !.target[t].gl = gl],
                          "true")

\* beginDraw() that always saves the queried binding, whatever restoreFbo is.
BeginDraw_IgnoresRestoreFbo(w, t, restoreFbo) ==
  IF w.target[t].renderTexture = Null
  THEN Return(w, "void")
  ELSE LET g  == w.target[t].gl
       IN  IF g = NoContext THEN ThrowTypeError(w)
           ELSE
           LET a  == GlGetFramebufferBinding(w, g)
               w1 == [a EXCEPT !.target[t].oldFbo = a.ret]
               w2 == GlBindFramebuffer(w1, g, "FRAMEBUFFER",
                                       w1.target[t].renderTexture)
           IN  Return(w2, "void")

\* beginDraw() that keeps the binding it saved first when it is called again
\* while its own framebuffer is bound.
BeginDraw_KeepsFirstSaved(w, t, restoreFbo) ==
  IF w.target[t].renderTexture = Null
  THEN Return(w, "void")
  ELSE LET g  == w.target[t].gl
       IN  IF g = NoContext THEN ThrowTypeError(w)
           ELSE
           LET w1 == IF restoreFbo = Null
                     THEN LET a == GlGetFramebufferBinding(w, g)
                          IN  IF a.ret = a.target[t].renderTexture
                              THEN a
                              ELSE [a EXCEPT !.target[t].oldFbo = a.ret]
                     ELSE [w EXCEPT !.target[t].oldFbo = restoreFbo]
               w2 == GlBindFramebuffer(w1, g, "FRAMEBUFFER",
                                       w1.target[t].renderTexture)
           IN  Return(w2, "void")

\* beginDraw() that binds its framebuffer before it reads the binding to save.
BeginDraw_BindBeforeQuery(w, t, restoreFbo) ==
  IF w.target[t].renderTexture = Null
  THEN Return(w, "void")
  ELSE LET g  == w.target[t].gl
       IN  IF g = NoContext THEN ThrowTypeError(w)
           ELSE
           LET w1 == GlBindFramebuffer(w, g, "FRAMEBUFFER",
                                       w.target[t].renderTexture)
               w2 == IF restoreFbo = Null
                     THEN LET a == GlGetFramebufferBinding(w1, g)
                          IN  [a EXCEPT !.target[t].oldFbo = a.ret]
                     ELSE [w1 EXCEPT !.target[t].oldFbo = restoreFbo]
           IN  Return(w2, "void")

\* beginDraw(restoreFbo = null)
BeginDraw(w, t, restoreFbo) ==
  IF w.target[t].renderTexture = Null
  THEN Return(w, "void")
  ELSE LET g  == w.target[t].gl
       IN  IF g = NoContext THEN ThrowTypeError(w)
           ELSE
           LET w1 == IF restoreFbo = Null
                     THEN LET a == GlGetFramebufferBinding(w, g)
                          IN  [a EXCEPT !.target[t].oldFbo = a.ret]
                     ELSE [w EXCEPT !.target[t].oldFbo = restoreFbo]
               w2 == GlBindFramebuffer(w1, g, "FRAMEBUFFER",
                                       w1.target[t].renderTexture)
           IN  Return(w2, "void")

\* endDraw() that also forgets the saved binding once it has restored it.
EndDraw_ClearsOldFbo(w, t) ==
  LET g == w.target[t].gl
  IN  IF g = NoContext THEN ThrowTypeError(w)
      ELSE LET a == GlBindFramebuffer(w, g, "FRAMEBUFFER", w.target[t].oldFbo)
           IN  Return([a EXCEPT !.target[t].oldFbo = Null], "void")

\* endDraw()
EndDraw(w, t) ==
  LET g == w.target[t].gl
  IN  IF g = NoContext THEN ThrowTypeError(w)
      ELSE Return(GlBindFramebuffer(w, g, "FRAMEBUFFER", w.target[t].oldFbo),
                  "void")

\* clear(r, g, b, a)
Clear(w, t) ==
  LET g == w.target[t].gl
  IN  IF g = NoContext THEN ThrowTypeError(w)
      ELSE Return(GlClear(w, g), "void")

\* The blit and the bindings around it (lines 34-57 of copyBuffer).
BlitBetween(w, gl, src, dst) ==
  LET w1 == GlGetFramebufferBinding(w, gl)
      previousFramebuffer == w1.ret
      w2 == GlBindFramebuffer(w1, gl, "READ_FRAMEBUFFER",
                              w1.target[src].renderTexture)
      w3 == GlBindFramebuffer(w2, gl, "DRAW_FRAMEBUFFER",
                              w2.target[dst].renderTexture)
      w4 == GlBlitFramebuffer(w3, gl,
                              w3.target[src].bufferWidth,
                              w3.target[src].bufferHeight,
                              w3.target[dst].bufferWidth,
                              w3.target[dst].bufferHeight)
      w5 == GlBindFramebuffer(w4, gl, "FRAMEBUFFER", previousFramebuffer)
  IN  Return(w5, "void")

\* copyBuffer() without the instanceof WebGL2RenderingContext check.
CopyBuffer_NoCapabilityCheck(w, gl, src, dst) ==
  IF src = Null \/ dst = Null
  THEN Return(w, "void")
  ELSE BlitBetween(w, gl, src, dst)

\* copyBuffer() that checks the context before it checks its arguments.
CopyBuffer_CapabilityCheckFirst(w, gl, src, dst) ==
  IF ~IsWebGL2(gl)
  THEN ThrowCapabilityError(w)
  ELSE IF src = Null \/ dst = Null
  THEN Return(w, "void")
  ELSE BlitBetween(w, gl, src, dst)

\* static copyBuffer(gl, src, dst); an absent target is Null.
CopyBuffer(w, gl, src, dst) ==
  IF src = Null \/ dst = Null
  THEN Return(w, "void")
  ELSE IF ~IsWebGL2(gl)
  THEN ThrowCapabilityError(w)
  ELSE BlitBetween(w, gl, src, dst)

\* isValid()
IsValid(tg) == tg.renderTexture # Null

\* ------------------------------------------------------------- actions
\* No call is in progress: the caller is between two calls.
Idle ==
  [ op |-> "idle", t |-> Null, u |-> Null, gl |-> NoContext,
    arg |-> Null, width |-> 0, height |-> 0,
    out |-> "none", calls |-> <<>>, blit |-> <<>>,
    pre |-> NewTarget, preDraw |-> Null, preRead |-> Null,
    changed |-> {}, pop |-> <<>> ]

\* What a completed call leaves behind: the new fields and context state, and
\* in `last` the call, its outcome, the context calls it issued, and what it
\* started from: the fields of its target (pre), the framebuffer bindings of
\* the context it worked on (preDraw, preRead), and which fields of any target
\* and which parts of any context's state it changed.
TargetFields ==
  {"gl", "colorBuffer", "renderTexture", "bufferWidth", "bufferHeight", "oldFbo"}

ContextFields ==
  {"draw", "read", "tex2d", "textures", "framebuffers", "deleted"}

Changed(w) ==
  {f \in TargetFields : \E t \in Targets : w.target[t][f] # target[t][f]}
    \cup {f \in ContextFields : \E c \in Contexts : w.ctx[c][f] # ctx[c][f]}

Commit(w, op, t, u, gl, arg, width, height, pop) ==
  LET on == IF gl # NoContext THEN gl
            ELSE IF t # Null THEN target[t].gl ELSE NoContext
  IN  /\ last = Idle
      /\ target' = w.target
      /\ ctx' = w.ctx
      /\ nextId' = w.nextId
      /\ last' = [ op |-> op, t |-> t, u |-> u, gl |-> gl, arg |-> arg,
                   width |-> width, height |-> height,
                   out |-> w.out, calls |-> w.calls, blit |-> w.blit,
                   pre |-> IF t # Null THEN target[t] ELSE NewTarget,
                   preDraw |-> IF on # NoContext THEN ctx[on].draw ELSE Null,
                   preRead |-> IF on # NoContext THEN ctx[on].read ELSE Null,
                   changed |-> Changed(w),
                   pop |-> pop ]

\* The framebuffers a caller can name in context c: none, its own, whatever
\* is bound, and the one target t holds.
CallerFramebuffers(c, t) ==
  {Null, CallerFbo(c), ctx[c].draw, target[t].renderTexture}

\* The sizes a caller asks for.
Sizes == {s \in Dims \X Dims : s[1] + s[2] = MaxDim + 1}

\* The caller has issued none of the calls of an unpaired sequence.
NoRebegin == [ t |-> Null, n |-> 0, first |-> Null ]

\* A beginDraw() with no restore argument on a valid target: the call that
\* starts, or repeats, a draw pass whose endDraw() has not come yet.
BeginsUnpaired(t, restoreFbo) ==
  /\ restoreFbo = Null
  /\ IsValid(target[t])

Init ==
  /\ target = [t \in Targets |-> NewTarget]
  /\ ctx = [c \in Contexts |-> NewContext(c)]
  /\ nextId = Cardinality(Contexts) + 1
  /\ last = Idle
  /\ open = <<>>
  /\ rebegin = NoRebegin

createOffscreenRenderTarget ==
  \E t \in Targets, gl \in Contexts, size \in Sizes,
     texOk \in BOOLEAN, fbOk \in BOOLEAN, complete \in BOOLEAN :
    \E previousFramebuffer \in CallerFramebuffers(gl, t) :
      /\ nextId + 1 <= MaxHandles
      /\ Commit(CreateOffscreenRenderTarget(World, t, gl, size[1], size[2],
                                            previousFramebuffer,
                                            texOk, fbOk, complete),
                "createOffscreenRenderTarget", t, Null, gl,
                previousFramebuffer, size[1], size[2], <<>>)
      /\ open' = <<>>
      /\ rebegin' = NoRebegin

destroyRenderTarget ==
  \E t \in Targets :
    LET w == DestroyRenderTarget(World, t)
    IN  /\ Commit(IF w.thrown THEN w ELSE Return(w, "void"),
                  "destroyRenderTarget", t, Null, NoContext, Null, 0, 0, <<>>)
        /\ open' = <<>>
        /\ rebegin' = NoRebegin

\* A beginDraw() with no restore argument on a valid target that is not
\* already open, in the context of the passes that are open, opens a nested
\* pass; the stack remembers what was bound before it.
OpensPass(t, restoreFbo) ==
  /\ restoreFbo = Null
  /\ IsValid(target[t])
  /\ target[t].gl # NoContext
  /\ \A i \in 1..Len(open) :
        open[i].t # t /\ target[open[i].t].gl = target[t].gl

beginDraw ==
  \E t \in Targets :
    \E restoreFbo \in {Null} \cup {CallerFbo(x) : x \in Contexts} :
      /\ restoreFbo # Null => restoreFbo = CallerFbo(target[t].gl)
      /\ Commit(BeginDraw(World, t, restoreFbo),
                "beginDraw", t, Null, NoContext, restoreFbo, 0, 0, <<>>)
      /\ open' = IF OpensPass(t, restoreFbo)
                 THEN Append(open, [ t |-> t,
                                     saved |-> ctx[target[t].gl].draw,
                                     depth |-> Len(open) + 1,
                                     reached |-> Len(open) + 1 ])
                 ELSE <<>>
      /\ rebegin' = IF ~BeginsUnpaired(t, restoreFbo) THEN NoRebegin
                    ELSE IF rebegin.t = t /\ rebegin.n = 1
                         THEN [rebegin EXCEPT !.n = 2]
                         ELSE [ t |-> t, n |-> 1,
                                first |-> ctx[target[t].gl].draw ]

\* An endDraw() on the innermost open pass closes it.
ClosesPass(t) ==
  /\ Len(open) > 0
  /\ open[Len(open)].t = t
  /\ target[t].gl # NoContext

endDraw ==
  \E t \in Targets :
    /\ Commit(EndDraw(World, t), "endDraw", t, Null, NoContext, Null, 0, 0,
              IF ClosesPass(t) THEN <<open[Len(open)]>> ELSE <<>>)
    /\ open' = IF ClosesPass(t)
               THEN [i \in 1..(Len(open) - 1) |->
                       [open[i] EXCEPT !.reached = open[Len(open)].reached]]
               ELSE <<>>
    /\ rebegin' = IF rebegin.t = t /\ rebegin.n \in {2, 3}
                  THEN [rebegin EXCEPT !.n = @ + 1]
                  ELSE NoRebegin

clear ==
  \E t \in Targets :
    /\ Commit(Clear(World, t), "clear", t, Null, NoContext, Null, 0, 0, <<>>)
    /\ UNCHANGED <<open, rebegin>>

copyBuffer ==
  \E gl \in Contexts, src \in Targets \cup {Null}, dst \in Targets \cup {Null} :
    /\ Commit(CopyBuffer(World, gl, src, dst),
              "copyBuffer", src, dst, gl, Null, 0, 0, <<>>)
    /\ open' = <<>>
    /\ rebegin' = NoRebegin

\* The caller binds a framebuffer itself; READ_FRAMEBUFFER exists in a WebGL2
\* context only.
callerBindFramebuffer ==
  \E c \in Contexts, fb \in {Null} \cup {CallerFbo(x) : x \in Contexts},
     point \in {"FRAMEBUFFER", "READ_FRAMEBUFFER"} :
    /\ fb \in {Null, CallerFbo(c)}
    /\ point # "FRAMEBUFFER" => IsWebGL2(c)
    /\ Commit(Return(GlBindFramebuffer(World, c, point, fb), "void"),
              "callerBindFramebuffer", Null, Null, c, fb, 0, 0, <<>>)
    /\ open' = <<>>
    /\ rebegin' = NoRebegin

\* The call has returned (or thrown) and the caller has looked at the result;
\* it goes on to its next call.
returnToCaller ==
  /\ last # Idle
  /\ last' = Idle
  /\ UNCHANGED <<target, ctx, nextId, open, rebegin>>

Next ==
  \/ returnToCaller
  \/ createOffscreenRenderTarget
  \/ destroyRenderTarget
  \/ beginDraw
  \/ endDraw
  \/ clear
  \/ copyBuffer
  \/ callerBindFramebuffer

Spec == Init /\ [][Next]_vars

\* ---------------------------------------------------------- properties
\* Reading the call log of the call that has just completed.
CallsNamed(names) ==
  {i \in 1..Len(last.calls) : last.calls[i][2] \in names}

\* The objects the call created: the values createTexture and
\* createFramebuffer returned to it.
CreatedInCall ==
  {last.calls[i][4] : i \in CallsNamed({"createTexture", "createFramebuffer"})}
    \ {Null}

\* checkFramebufferStatus answered something other than FRAMEBUFFER_COMPLETE.
CompletenessCheckFailed ==
  \E i \in CallsNamed({"checkFramebufferStatus"}) : last.calls[i][4] # 1

Threw == last.out \in {"TypeError", "CapabilityError"}

\* The targets that hold object h as colour buffer or framebuffer.
Owners(h) ==
  {t \in Targets : target[t].colorBuffer = h \/ target[t].renderTexture = h}

\* C1: whenever the completeness check fails inside
\* createOffscreenRenderTarget, whatever the target was before and whatever
\* previousFramebuffer is, the call returns false without throwing, the target
\* is not valid, and the context's framebuffer binding is previousFramebuffer.
C1_RollbackOnFailure ==
  (last.op = "createOffscreenRenderTarget" /\ CompletenessCheckFailed)
    => /\ last.out = "false"
       /\ ~IsValid(target[last.t])
       /\ ctx[last.gl].draw = last.arg

\* C2: after any completed call a target is never half-initialized: it has
\* no colour buffer if and only if it has no framebuffer.
C2_ValidityDichotomy ==
  (last # Idle /\ ~Threw)
    => \A t \in Targets :
         (target[t].colorBuffer = Null) <=> (target[t].renderTexture = Null)

\* C3: when createOffscreenRenderTarget returns false, every texture and
\* framebuffer created during the call has been deleted in the context that
\* created it, and the target refers to none of them.
C3_FailedAllocationReleasesAll ==
  (last.op = "createOffscreenRenderTarget" /\ last.out = "false")
    => \A h \in CreatedInCall :
         /\ h \in ctx[last.gl].deleted
         /\ target[last.t].colorBuffer # h
         /\ target[last.t].renderTexture # h

\* C4: in a well-nested sequence of beginDraw() / endDraw() calls on distinct
\* valid targets of one context, each endDraw() leaves bound the framebuffer
\* that was bound before the matching beginDraw(); so the outermost endDraw()
\* restores what was bound before the first beginDraw().
C4_NestingRestoresOuter ==
  (last.op = "endDraw" /\ last.pop # <<>>)
    => /\ last.out = "void"
       /\ ctx[last.pre.gl].draw = last.pop[1].saved

\* C4 witness: the outermost endDraw() of a nest two deep, begun while a
\* framebuffer of the caller was bound.
C4_Witness ==
  /\ last.op = "endDraw"
  /\ last.pop # <<>>
  /\ last.pop[1].depth = 1
  /\ last.pop[1].reached >= 2
  /\ last.pop[1].saved = CallerFbo(last.pre.gl)
  /\ ctx[last.pre.gl].draw = last.pop[1].saved

\* C5: beginDraw() and endDraw() on a target that owns no framebuffer complete
\* without throwing and leave the context's framebuffer binding unchanged.
C5_DrawOnInvalidIsNoOp ==
  (last.op \in {"beginDraw", "endDraw"} /\ ~IsValid(last.pre))
    => /\ last.out = "void"
       /\ "draw" \notin last.changed

\* C6: a createOffscreenRenderTarget(gl, w, h, prev) that returns true leaves
\* the target valid with bufferWidth = w, bufferHeight = h and _gl = gl;
\* destroyRenderTarget() on a valid target leaves it holding neither resource;
\* and destroyRenderTarget() on a target holding neither resource issues no
\* context call and changes nothing.
C6_AllocateDestroyRoundTrip ==
  /\ (last.op = "createOffscreenRenderTarget" /\ last.out = "true")
       => /\ IsValid(target[last.t])
          /\ target[last.t].bufferWidth = last.width
          /\ target[last.t].bufferHeight = last.height
          /\ target[last.t].gl = last.gl
  /\ (last.op = "destroyRenderTarget" /\ IsValid(last.pre))
       => /\ last.out = "void"
          /\ ~IsValid(target[last.t])
          /\ target[last.t].colorBuffer = Null
  /\ (last.op = "destroyRenderTarget"
        /\ last.pre.colorBuffer = Null /\ last.pre.renderTexture = Null)
       => /\ last.out = "void"
          /\ last.calls = <<>>
          /\ last.changed = {}

\* C6 witness: a second destroyRenderTarget() on a target that was allocated
\* and destroyed.
C6_Witness ==
  /\ last.op = "destroyRenderTarget"
  /\ last.pre.gl # NoContext
  /\ last.pre.bufferWidth > 0
  /\ last.pre.colorBuffer = Null
  /\ last.pre.renderTexture = Null
  /\ last.calls = <<>>

\* C7: at any time every texture and framebuffer that a target created in a
\* context and that was not deleted there is held by exactly one target.
C7_NoLeak ==
  \A c \in Contexts :
    \A h \in (ctx[c].textures \cup ctx[c].framebuffers) \ ctx[c].deleted :
      Cardinality(Owners(h)) = 1

\* C8: copyBuffer() on a WebGL2 context, with a source and a destination that
\* are valid targets of that context, leaves the draw and the read framebuffer
\* binding as they were before it.
C8_CopyKeepsBindings ==
  (last.op = "copyBuffer" /\ IsWebGL2(last.gl)
     /\ last.t # Null /\ last.u # Null /\ last.t # last.u
     /\ IsValid(target[last.t]) /\ target[last.t].gl = last.gl
     /\ IsValid(target[last.u]) /\ target[last.u].gl = last.gl)
    => /\ last.out = "void"
       /\ ctx[last.gl].draw = last.preDraw
       /\ ctx[last.gl].read = last.preRead

\* C9 as stated: copyBuffer() with a context that is no WebGL2 context raises
\* the capability error and binds no framebuffer, whether source and
\* destination are present or absent.
C9_CapabilityGateAlways ==
  (last.op = "copyBuffer" /\ ~IsWebGL2(last.gl))
    => /\ last.out = "CapabilityError"
       /\ CallsNamed({"bindFramebuffer"}) = {}

\* C9: copyBuffer() with a context that is no WebGL2 context issues no context
\* call; it raises the capability error when source and destination are both
\* present, and returns without an error when either is absent.
C9_CapabilityGate ==
  (last.op = "copyBuffer" /\ ~IsWebGL2(last.gl))
    => /\ last.calls = <<>>
       /\ last.changed = {}
       /\ (last.t # Null /\ last.u # Null) => last.out = "CapabilityError"
       /\ (last.t = Null \/ last.u = Null) => last.out = "void"

\* C9 witness: the capability error, raised for two valid targets.
C9_Witness ==
  /\ last.op = "copyBuffer"
  /\ ~IsWebGL2(last.gl)
  /\ last.t # Null /\ last.u # Null /\ last.t # last.u
  /\ IsValid(target[last.t]) /\ IsValid(target[last.u])
  /\ last.out = "CapabilityError"

\* C10: copyBuffer() with an absent source or an absent destination issues no
\* context call and raises no error, whatever the other argument and the
\* context are.
C10_AbsentTargetNoCalls ==
  (last.op = "copyBuffer" /\ (last.t = Null \/ last.u = Null))
    => /\ last.calls = <<>>
       /\ last.out = "void"
       /\ last.changed = {}

\* C10 witness: source absent, destination a valid target, and a context
\* without blit support.
C10_Witness ==
  /\ last.op = "copyBuffer"
  /\ last.t = Null
  /\ last.u # Null
  /\ IsValid(target[last.u])
  /\ ~IsWebGL2(last.gl)
  /\ last.out = "void"

\* C11: destroyRenderTarget() completes without throwing in every state a
\* target can be in (both resources, a texture only, a framebuffer only,
\* neither), and afterwards the target holds neither resource.
C11_DestroySafeAndIdempotent ==
  (last.op = "destroyRenderTarget")
    => /\ last.out = "void"
       /\ target[last.t].colorBuffer = Null
       /\ target[last.t].renderTexture = Null

C13_EndDrawRestoresAlways ==
  (last.op = "endDraw")
    => /\ last.out = "void"
       /\ last.pre.gl \in Contexts
       /\ ctx[last.pre.gl].draw = last.pre.oldFbo

\* C14: beginDraw(r) on a valid target leaves getOldFBO() equal to r when r is
\* supplied and otherwise to the framebuffer bound just before the call, and
\* leaves the target's own framebuffer bound; endDraw() on a valid target
\* makes the recorded value the bound framebuffer.
C14_BeginDrawRecordsAndBinds ==
  /\ (last.op = "beginDraw" /\ IsValid(last.pre))
       => /\ last.out = "void"
          /\ target[last.t].oldFbo
               = (IF last.arg # Null THEN last.arg ELSE last.preDraw)
          /\ last.pre.gl \in Contexts
          /\ ctx[last.pre.gl].draw = last.pre.renderTexture
  /\ (last.op = "endDraw" /\ IsValid(last.pre))
       => /\ last.out = "void"
          /\ last.pre.gl \in Contexts
          /\ ctx[last.pre.gl].draw = last.pre.oldFbo

C14_Witness ==
  /\ last.op = "beginDraw" /\ IsValid(last.pre) /\ last.out = "void"
  /\ last.arg # Null /\ last.arg # last.preDraw
  /\ target[last.t].oldFbo = last.arg
  /\ ctx[last.pre.gl].draw = last.pre.renderTexture

\* C15: in every state beginDraw changes nothing but the target's _oldFbo and
\* the context's framebuffer binding, and endDraw changes nothing but the
\* context's framebuffer binding: the owned texture and framebuffer, the
\* buffer size, the context handle and isValid() stay as they were.
C15_DrawKeepsLifecycle ==
  /\ (last.op = "beginDraw")
       => /\ last.changed \subseteq {"oldFbo", "draw", "read"}
          /\ IsValid(target[last.t]) = IsValid(last.pre)
          /\ [target[last.t] EXCEPT !.oldFbo = Null]
               = [last.pre EXCEPT !.oldFbo = Null]
  /\ (last.op = "endDraw")
       => /\ last.changed \subseteq {"draw", "read"}
          /\ IsValid(target[last.t]) = IsValid(last.pre)
          /\ target[last.t] = last.pre

C15_Witness ==
  /\ last.op = "endDraw" /\ IsValid(last.pre) /\ last.out = "void"
  /\ last.pre.oldFbo # Null
  /\ last.changed = {"draw", "read"}
  /\ target[last.t] = last.pre

\* C16: copyBuffer on a WebGL2 context with both targets present and at least
\* one of them owning no framebuffer raises no error, performs no blit and
\* leaves the context's bindings and both targets unchanged.
C16_CopyInvalidIsNoOp ==
  (/\ last.op = "copyBuffer" /\ IsWebGL2(last.gl)
   /\ last.t # Null /\ last.u # Null
   /\ (~IsValid(target[last.t]) \/ ~IsValid(target[last.u])))
    => /\ last.out = "void"
       /\ CallsNamed({"blitFramebuffer"}) = {}
       /\ last.changed = {}

\* C17: whenever createOffscreenRenderTarget returns true, the framebuffer
\* bound in the context is the target's framebuffer, created in this call; it
\* is neither the previousFramebuffer argument nor the framebuffer bound
\* before the call.
C17_SuccessLeavesOwnBound ==
  (last.op = "createOffscreenRenderTarget" /\ last.out = "true")
    => /\ ctx[last.gl].draw = target[last.t].renderTexture
       /\ target[last.t].renderTexture \in CreatedInCall
       /\ ctx[last.gl].draw # last.arg
       /\ ctx[last.gl].draw # last.preDraw

C17_Witness ==
  /\ last.op = "createOffscreenRenderTarget" /\ last.out = "true"
  /\ last.arg = CallerFbo(last.gl)
  /\ last.preDraw = CallerFbo(last.gl)
  /\ ctx[last.gl].draw = target[last.t].renderTexture

\* C18: every deleteTexture and deleteFramebuffer call is issued on the
\* context that created the object it deletes, re-allocation against another
\* context and failed allocations included.
C18_DeleteOnCreatingContext ==
  \A i \in CallsNamed({"deleteTexture", "deleteFramebuffer"}) :
    last.calls[i][4] \in ctx[last.calls[i][1]].textures
                           \cup ctx[last.calls[i][1]].framebuffers

\* C19: when beginDraw() with no restore argument is called twice on the same
\* valid target with no endDraw() in between, the second call overwrites
\* _oldFbo with the target's own framebuffer, and after two endDraw() calls
\* the bound framebuffer is the target's own, not the one bound before the
\* first beginDraw().
C19_SavedBindingIsSingleSlot ==
  /\ (rebegin.n = 2)
       => target[rebegin.t].oldFbo = target[rebegin.t].renderTexture
  /\ (rebegin.n \in {3, 4})
       => /\ ctx[target[rebegin.t].gl].draw = target[rebegin.t].renderTexture
          /\ rebegin.first # target[rebegin.t].renderTexture
               => ctx[target[rebegin.t].gl].draw # rebegin.first

C19_Witness ==
  /\ rebegin.n = 4 /\ last.op = "endDraw" /\ last.t = rebegin.t
  /\ rebegin.first = CallerFbo(target[rebegin.t].gl)
  /\ ctx[target[rebegin.t].gl].draw = target[rebegin.t].renderTexture
  /\ ctx[target[rebegin.t].gl].draw # rebegin.first

\* C20: destroyRenderTarget() on a target that owns a framebuffer leaves the
\* default framebuffer (none) bound in the target's context, whatever was
\* bound before the call; on a target that owns no framebuffer it leaves the
\* framebuffer binding unchanged.
C20_DestroyResetsBinding ==
  /\ (last.op = "destroyRenderTarget" /\ IsValid(last.pre))
       => /\ last.out = "void"
          /\ ctx[last.pre.gl].draw = Null
          /\ ctx[last.pre.gl].read = Null
  /\ (last.op = "destroyRenderTarget" /\ ~IsValid(last.pre))
       => /\ "draw" \notin last.changed
          /\ "read" \notin last.changed

C20_Witness ==
  /\ last.op = "destroyRenderTarget" /\ IsValid(last.pre)
  /\ \E u \in Targets \ {last.t} :
        /\ IsValid(target[u])
        /\ target[u].gl = last.pre.gl
        /\ last.preDraw = target[u].renderTexture
  /\ ctx[last.pre.gl].draw = Null

====
